---- MODULE Spec2Model ----
(***************************************************************************)
(* A model of the valuation engine of the repository: the growth estimator *)
(* (growth_estimation.py), the intrinsic value projector (mos.py), the     *)
(* ten-cap calculator (ten_cap.py) and the per-year loop of the report     *)
(* (csv_report.py).                                                        *)
(*                                                                         *)
(* Python floats are modelled by exact rationals <<n, d>> with d > 0 in    *)
(* lowest terms.  A value rounded to two decimals, round(x, 2), is         *)
(* modelled by the integer number of hundredths, so 14.87 is 1487.         *)
(***************************************************************************)
EXTENDS Integers, Sequences, FiniteSets, TLC

VARIABLES
    \* ---- growth_estimation.mos_growth_estimate ----
    g_pc,             \* "call", "loop", "returned", "raised"
    target_year,      \* argument
    data_start_year,  \* argument
    start_index,      \* local
    remaining,        \* the items of data_dict the for loop has still to visit
    key,              \* loop variable: the metric visited last
    values,           \* loop variable: the series of that metric
    details,          \* local: metric -> hundredths of a percent
    growths,          \* local: sequence of decimal CAGRs (rationals)
    lens,             \* metric -> len(data_dict[metric]), for the items visited
    \* ---- mos.calculate_intrinsic_value ----
    i_pc,             \* "call", "returned"
    eps_now,          \* argument (rational)
    growth_rate,      \* argument (rational)
    discount_rate,    \* argument (rational)
    mos,              \* argument (rational)
    result,           \* the dict returned: key -> hundredths
    \* ---- ten_cap.calculate_ten_cap_price ----
    t_pc,             \* the statement to execute next, or "returned"
    t_exit,           \* the line of the return statement taken, 0 before it
    t_last,           \* the statement executed last
    year,             \* argument
    income_data,      \* calendar years of the income statements fetched
    cashflow_data,    \* calendar years of the cash-flow statements fetched
    metrics,          \* calendar years of the key metrics fetched
    fields,           \* the raw fields the statement executed last has read
    profit_before_tax,
    depreciation,
    wc_components,
    maintenance_capex,
    shares_outstanding,
    ten_cap_price,    \* the value returned, None before
    \* ---- csv_report.append_mos_to_csv ----
    r_pc,             \* the statement to execute next, "returned" or "raised"
    r_exception,      \* the exception that left the function, "" if none
    breach_year,      \* argument
    start_year,       \* argument
    metrics_raw,      \* argument: metric -> series
    r_details,        \* local details: the estimate for the breach year
    r_eps_now,        \* local eps_now
    r_growth_rate,    \* local growth_rate (rational)
    eps_list,         \* local
    fair_value_history, \* local: the rows appended so far
    offset,           \* loop variable
    year_index,       \* local
    r_eps,            \* local eps
    r_year,           \* local year
    growth_details,   \* local, Unbound before its first assignment
    stock_price,      \* local: None or <<hundredths>>
    actual_date,      \* local: None or <<days before 12-31>>
    r_ten_cap_price,  \* local ten_cap_price: None or a rational
    ten_cap_str,      \* local: None for "N/A", or <<hundredths>>
    intrinsic,        \* local, Unbound before its first assignment
    mos_summary,      \* local: the summary block
    saved,            \* whether result_df has been written to filepath
    \* ---- fmp_api.get_valid_price ----
    p_pc,             \* "call", "loop", "returned", "raised"
    base_date_str,    \* argument: a date string
    closes,           \* the provider: days before the base date -> its answer
    base_date,        \* local: a date
    p_i,              \* loop variable i
    current_date,     \* local: a date
    date_str,         \* local: a date string
    price,            \* local: None or <<close>>
    lookups,          \* the date strings get_price_on_date was called with
    p_result,         \* the tuple returned, None before
    \* ---- main.py ----
    m_pc,             \* the statement to execute next, "done" after the loop
    m_rest,           \* the items of ticker_map the for loop has still to visit
    m_ticker,         \* loop variable ticker
    m_breach_year,    \* loop variable breach_year
    m_start_year,     \* local start_year
    attempts,         \* the tickers whose processing has begun, in order
    outcome,          \* ticker -> how its processing ended
    \* ---- fmp_api.get_year_data_by_range ----
    y_pc,             \* "call", "loop", "returned", "raised"
    y_start_year,     \* argument start_year
    y_years,          \* argument years
    y_income,         \* local income: the records fetched, in provider order
    y_cashflow,       \* local cashflow
    y_metrics,        \* local metrics
    y_year,           \* loop variable year
    results,          \* local: the rows of the table
    book_list,        \* local
    y_eps_list,       \* local eps_list
    revenue_list,     \* local
    cashflow_list,    \* local
    mos_metrics       \* the dict returned with results, EmptyDict before

growthVars == <<g_pc, target_year, data_start_year, start_index, remaining,
                key, values, details, growths, lens>>

intrinsicVars == <<i_pc, eps_now, growth_rate, discount_rate, mos, result>>

tenCapVars == <<t_pc, t_exit, t_last, year, income_data, cashflow_data, metrics,
                fields, profit_before_tax, depreciation, wc_components,
                maintenance_capex, shares_outstanding, ten_cap_price>>

reportVars == <<r_pc, r_exception, breach_year, start_year, metrics_raw, r_details,
                r_eps_now, r_growth_rate, eps_list, fair_value_history, offset,
                year_index, r_eps, r_year, growth_details, stock_price,
                actual_date, r_ten_cap_price, ten_cap_str, intrinsic,
                mos_summary, saved>>

priceVars == <<p_pc, base_date_str, closes, base_date, p_i, current_date,
               date_str, price, lookups, p_result>>

mainVars == <<m_pc, m_rest, m_ticker, m_breach_year, m_start_year, attempts,
              outcome>>

rangeVars == <<y_pc, y_start_year, y_years, y_income, y_cashflow, y_metrics,
               y_year, results, book_list, y_eps_list, revenue_list,
               cashflow_list, mos_metrics>>

vars == <<growthVars, intrinsicVars, tenCapVars, reportVars, priceVars, mainVars, rangeVars>>

(***************************************************************************)
(* Rational arithmetic                                                     *)
(***************************************************************************)
Abs(x) == IF x < 0 THEN -x ELSE x

RECURSIVE GCD(_, _)
GCD(a, b) == IF b = 0 THEN a ELSE GCD(b, a % b)

\* the rational n/d (d # 0) in lowest terms with a positive denominator
Rat(n, d) ==
    LET g == GCD(Abs(n), Abs(d))
        s == IF d < 0 THEN -1 ELSE 1
    IN  <<(s * n) \div g, (s * d) \div g>>

RZero == <<0, 1>>
ROne == <<1, 1>>
RInt(i) == <<i, 1>>
RAdd(x, y) == Rat(x[1] * y[2] + y[1] * x[2], x[2] * y[2])
RSub(x, y) == Rat(x[1] * y[2] - y[1] * x[2], x[2] * y[2])
RMul(x, y) == Rat(x[1] * y[1], x[2] * y[2])
RDiv(x, y) == Rat(x[1] * y[2], x[2] * y[1])
RAbs(x) == <<Abs(x[1]), x[2]>>
RLeq(x, y) == x[1] * y[2] <= y[1] * x[2]
RLess(x, y) == x[1] * y[2] < y[1] * x[2]

RECURSIVE RSum(_)
RSum(s) == IF s = <<>> THEN RZero ELSE RAdd(Head(s), RSum(Tail(s)))

\* the integer nearest to n/d (d > 0), a tie going to the even neighbour
RoundDiv(n, d) ==
    LET q == n \div d
        r == n % d
    IN  IF 2 * r < d THEN q
        ELSE IF 2 * r > d THEN q + 1
        ELSE IF q % 2 = 0 THEN q ELSE q + 1

\* round(x * 100, 2) of a decimal x, in hundredths of a percent
RoundPct(x) == RoundDiv(10000 * x[1], x[2])

\* n copies of v
RECURSIVE Fill(_, _)
Fill(v, n) == IF n = 0 THEN <<>> ELSE <<v>> \o Fill(v, n - 1)

\* the empty dict
EmptyDict == [k \in {} |-> 0]

(***************************************************************************)
(* Natural numbers beyond the machine integer: digits to the base BigBase, *)
(* least significant first.  They carry the products of the intrinsic      *)
(* value formula, such as 23^10 for (1 + 0.15)^10.                         *)
(***************************************************************************)
BigBase == 10000
\* the largest number a big natural is multiplied or divided by in one step
BigSmall == 200000

\* b * k + c, 0 <= k
RECURSIVE BigMulC(_, _, _)
BigMulC(b, k, c) ==
    IF b = <<>>
    THEN IF c = 0 THEN <<>> ELSE <<c % BigBase>> \o BigMulC(<<>>, k, c \div BigBase)
    ELSE LET t == Head(b) * k + c
         IN  <<t % BigBase>> \o BigMulC(Tail(b), k, t \div BigBase)

BigMul(b, k) == BigMulC(b, k, 0)

\* <<b \div k, b % k>>, 0 < k
RECURSIVE BigDivRem(_, _)
BigDivRem(b, k) ==
    IF b = <<>>
    THEN <<<<>>, 0>>
    ELSE LET hi  == BigDivRem(Tail(b), k)
             cur == hi[2] * BigBase + Head(b)
         IN  << <<cur \div k>> \o hi[1], cur % k >>

\* -1, 0, 1 as a < b, a = b, a > b
RECURSIVE BigCmp(_, _)
BigCmp(a, b) ==
    IF a = <<>> /\ b = <<>>
    THEN 0
    ELSE LET ha == IF a = <<>> THEN 0 ELSE Head(a)
             hb == IF b = <<>> THEN 0 ELSE Head(b)
             hi == BigCmp(IF a = <<>> THEN <<>> ELSE Tail(a),
                          IF b = <<>> THEN <<>> ELSE Tail(b))
         IN  IF hi # 0 THEN hi
             ELSE IF ha < hb THEN -1 ELSE IF ha > hb THEN 1 ELSE 0

RECURSIVE BigToInt(_)
BigToInt(b) == IF b = <<>> THEN 0 ELSE Head(b) + BigBase * BigToInt(Tail(b))

\* a + b + c, c the carry
RECURSIVE BigAddC(_, _, _)
BigAddC(a, b, c) ==
    IF a = <<>> /\ b = <<>>
    THEN IF c = 0 THEN <<>> ELSE <<c>>
    ELSE LET t == (IF a = <<>> THEN 0 ELSE Head(a))
                  + (IF b = <<>> THEN 0 ELSE Head(b)) + c
         IN  <<t % BigBase>> \o BigAddC(IF a = <<>> THEN <<>> ELSE Tail(a),
                                        IF b = <<>> THEN <<>> ELSE Tail(b),
                                        t \div BigBase)

BigAdd(a, b) == BigAddC(a, b, 0)

\* b * n for any natural n of the machine
RECURSIVE BigMulInt(_, _)
BigMulInt(b, n) ==
    IF n <= BigSmall THEN BigMul(b, n)
    ELSE BigAdd(BigMul(b, n % BigBase), <<0>> \o BigMulInt(b, n \div BigBase))

\* fs with neighbours multiplied together while the product stays small:
\* the same product in fewer factors
RECURSIVE Compress(_, _)
Compress(fs, acc) ==
    IF fs = <<>> THEN <<acc>>
    ELSE IF acc * Head(fs) <= BigSmall
         THEN Compress(Tail(fs), acc * Head(fs))
         ELSE <<acc>> \o Compress(Tail(fs), Head(fs))

\* the product of the numbers of the sequence fs
RECURSIVE BigProd(_)
BigProd(fs) ==
    IF fs = <<>> THEN <<1>> ELSE BigMul(BigProd(Tail(fs)), Head(fs))

\* <<floor(b / product of fs), whether the division is exact>>; each
\* quotient is bound as a value before the next division starts
RECURSIVE BigDivAll(_, _)
BigDivAll(b, fs) ==
    IF fs = <<>>
    THEN <<b, TRUE>>
    ELSE CHOOSE r \in { LET rest == BigDivAll(qr[1], Tail(fs))
                        IN  <<rest[1], rest[2] /\ qr[2] = 0>> :
                        qr \in {BigDivRem(b, Head(fs))} } : TRUE

\* round(x, 2) in hundredths, for x = product of nums / product of dens >= 0;
\* a tie goes to the even neighbour
Round2(nums, dens) ==
    LET qe    == BigDivAll(BigProd(Compress(nums, 200)), Compress(dens, 1))
        t     == BigToInt(qe[1])
        q     == t \div 2
    IN  IF t % 2 = 0 THEN q
        ELSE IF ~qe[2] THEN q + 1
        ELSE IF q % 2 = 0 THEN q ELSE q + 1

(***************************************************************************)
(* mos.py                                                                  *)
(***************************************************************************)
\* the inputs drawn for calculate_intrinsic_value
EpsSet == { <<-1, 1>>, <<0, 1>>, <<1, 2>>, <<1, 1>>, <<5, 2>> }
GrowthRates == { <<-1, 10>>, <<0, 1>>, <<1, 10>>, <<1, 4>>, <<1, 2>> }
DiscountRates == { <<0, 1>>, <<3, 20>>, <<1, 2>> }
MosFractions == { <<0, 1>>, <<1, 4>>, <<1, 2>> }

\* the guard letting a growth rate of exactly 0 through
InvalidInput_ZeroGrowthPasses(eps, g) == eps[1] <= 0 \/ g[1] < 0

\* line 23: the guard
InvalidInput(eps, g) == eps[1] <= 0 \/ g[1] <= 0

\* lines 25-30: the dict returned for invalid input
ZeroResult ==
    [k \in {"EPS_10y", "Future Value", "Fair Value Today", "MOS Price (50%)"} |-> 0]

\* the factors of eps_10y = eps_now * ((1 + growth_rate) ** 10)
Eps10yNum(eps, g) == <<eps[1]>> \o Fill(g[2] + g[1], 10)
Eps10yDen(eps, g) == <<eps[2]>> \o Fill(g[2], 10)
\* future_value = eps_10y * future_pe, future_pe = growth_rate * 200
FutureValueNum(eps, g) == Eps10yNum(eps, g) \o <<g[1], 200>>
FutureValueDen(eps, g) == Eps10yDen(eps, g) \o <<g[2]>>
\* fair_value_today = future_value / ((1 + discount_rate) ** 10)
FairValueNum(eps, g, dr) == FutureValueNum(eps, g) \o Fill(dr[2], 10)
FairValueDen(eps, g, dr) == FutureValueDen(eps, g) \o Fill(dr[2] + dr[1], 10)
\* mos_price = fair_value_today * (1 - mos)
MosPriceNum(eps, g, dr, m) == FairValueNum(eps, g, dr) \o <<m[2] - m[1]>>
MosPriceDen(eps, g, dr, m) == FairValueDen(eps, g, dr) \o <<m[2]>>

\* calculate_intrinsic_value deriving the later figures from the rounded
\* EPS_10y
calculate_intrinsic_value_FromRounded(eps, g, dr, m) ==
    IF InvalidInput(eps, g)
    THEN ZeroResult
    ELSE LET e10 == Round2(Eps10yNum(eps, g), Eps10yDen(eps, g))
         IN  ("Groth_rate" :> RoundPct(g))
             @@ ("EPS_now" :> RoundDiv(100 * eps[1], eps[2]))
             @@ ("EPS_10y" :> e10)
             @@ ("Future Value" :> Round2(<<e10, g[1], 200>>, <<100, g[2]>>))
             @@ ("Fair Value Today" :>
                    Round2(<<e10, g[1], 200>> \o Fill(dr[2], 10),
                           <<100, g[2]>> \o Fill(dr[2] + dr[1], 10)))
             @@ ("MOS Price (50%)" :>
                    Round2(<<e10, g[1], 200>> \o Fill(dr[2], 10) \o <<m[2] - m[1]>>,
                           <<100, g[2]>> \o Fill(dr[2] + dr[1], 10) \o <<m[2]>>))

\* calculate_intrinsic_value(eps_now, growth_rate, breach_year, discount_rate, mos);
\* breach_year is only logged
calculate_intrinsic_value(eps, g, dr, m) ==
    IF InvalidInput(eps, g)
    THEN ZeroResult
    ELSE ("Groth_rate" :> RoundPct(g))
         @@ ("EPS_now" :> RoundDiv(100 * eps[1], eps[2]))
         @@ ("EPS_10y" :> Round2(Eps10yNum(eps, g), Eps10yDen(eps, g)))
         @@ ("Future Value" :> Round2(FutureValueNum(eps, g), FutureValueDen(eps, g)))
         @@ ("Fair Value Today" :>
                Round2(FairValueNum(eps, g, dr), FairValueDen(eps, g, dr)))
         @@ ("MOS Price (50%)" :>
                Round2(MosPriceNum(eps, g, dr, m), MosPriceDen(eps, g, dr, m)))

IntrinsicIdle ==
    /\ i_pc = "idle"
    /\ eps_now = RZero
    /\ growth_rate = RZero
    /\ discount_rate = RZero
    /\ mos = RZero
    /\ result = EmptyDict

(***************************************************************************)
(* ten_cap.py                                                              *)
(*                                                                         *)
(* A raw field of a provider record is absent (the key is missing), null,  *)
(* a text or a number of dollars.  Amounts in millions are rationals.      *)
(* None is the empty tuple.                                                *)
(***************************************************************************)
MILLION == 1000000

None == <<>>

Absent == [t |-> "absent", v |-> 0]
Null == [t |-> "null", v |-> 0]
Text == [t |-> "text", v |-> 0]
Num(n) == [t |-> "num", v |-> n]

\* record.get(key, 0): the default for a missing key
Get(raw) == IF raw = Absent THEN Num(0) ELSE raw

\* the truth value Python gives a value in `a or b`
Truthy(raw) == (raw.t = "num" /\ raw.v # 0) \/ raw.t = "text"

\* the chain resolving to the last usable candidate instead of the first
RECURSIVE OrChain_LastWins(_)
OrChain_LastWins(cands) ==
    IF Len(cands) = 1 THEN Get(cands[1])
    ELSE IF Truthy(Get(cands[Len(cands)])) THEN Get(cands[Len(cands)])
    ELSE OrChain_LastWins(SubSeq(cands, 1, Len(cands) - 1))

\* a or b or ... over the values of the sequence cands, in order
RECURSIVE OrChain(_)
OrChain(cands) ==
    IF Len(cands) = 1 THEN Get(cands[1])
    ELSE IF Truthy(Get(cands[1])) THEN Get(cands[1])
    ELSE OrChain(Tail(cands))

\* a value that is no number taken as 0 instead of raising
RaisesTypeError_Never(raw) == FALSE

\* whether value / MILLION, or abs(value), raises TypeError
RaisesTypeError(raw) == raw.t # "num"

\* value / MILLION
Millions(raw) == Rat(raw.v, MILLION)

\* owner earnings with the whole of the maintenance capex taken off
calculate_owner_earnings_FullCapex(profit, dep, wc, capex) ==
    RSub(RAdd(RAdd(profit, dep), wc), capex)

\* lines 16-44
calculate_owner_earnings(profit, dep, wc, capex) ==
    LET adjusted_maintenance == RMul(capex, <<1, 2>>)
    IN  RSub(RAdd(RAdd(profit, dep), wc), adjusted_maintenance)

\* the share check letting a share count of exactly 0 through
SharesInvalid_ZeroPasses(shares) == RLess(shares, RZero)

\* line 183
SharesInvalid(shares) == RLeq(shares, RZero)

\* lines 216-219: eps and the ten-cap price
TenCapPrice(owner_earnings, shares) ==
    LET eps == IF RLess(RZero, shares) THEN RDiv(owner_earnings, shares) ELSE RZero
    IN  RDiv(eps, <<1, 10>>)

\* the candidate fields, in the order of the code
DepreciationKeys == <<"depreciationAndAmortization", "depreciation",
                      "depreciationAmortizationDepletion",
                      "depreciationDepletionAndAmortization">>
SharesKeys == <<"metrics.weightedAverageShsOut", "metrics.weightedAverageShsOutDil",
                "income.weightedAverageShsOut", "income.weightedAverageShsOutDil">>

\* the year asked for in the model
TheYear == 2019

\* what a fetch gives: the calendar years of the records of the list, or
\* an error when the request or the decoding of its answer raises
FetchError == [ok |-> FALSE, years |-> {}]
Fetched(ys) == [ok |-> TRUE, years |-> ys]
FetchResults == { FetchError, Fetched({}), Fetched({TheYear - 1}),
                  Fetched({TheYear - 1, TheYear}) }

\* the raw values drawn for the fields
ProfitRaws == { Absent, Null, Text, Num(100 * MILLION), Num(-300 * MILLION) }
DepreciationRaws(i) == { Absent, Null, Text, Num(0), Num((19 + i) * MILLION) }
ReceivablesRaws == { Absent, Null, Num(-15 * MILLION) }
PayablesRaws == { Absent, Num(10 * MILLION) }
CapexRaws == { Absent, Null, Num(10 * MILLION), Num(-10 * MILLION) }
SharesRaws(i) ==
    { Absent, Null, Num(0), Num((49 + i) * MILLION) }
    \cup (IF i = 1 THEN {Num(-50 * MILLION)} ELSE {})

\* the dict of the fields named by the sequence keys, with the values vs
Dict(keys, vs) == [k \in {keys[i] : i \in 1..Len(keys)} |->
                      vs[CHOOSE i \in 1..Len(keys) : keys[i] = k]]

TenCapIdle ==
    /\ t_pc = "idle"
    /\ t_exit = 0
    /\ t_last = ""
    /\ year = TheYear
    /\ income_data = Fetched({})
    /\ cashflow_data = Fetched({})
    /\ metrics = Fetched({})
    /\ fields = EmptyDict
    /\ profit_before_tax = None
    /\ depreciation = None
    /\ wc_components = None
    /\ maintenance_capex = None
    /\ shares_outstanding = None
    /\ ten_cap_price = None

(***************************************************************************)
(* growth_estimation.py                                                    *)
(***************************************************************************)
\* first calendar year of the data in the model
BaseYear == 2013
\* largest target_year - data_start_year drawn
MaxSpan == 6
\* the largest k-th root looked for
MaxRoot == 3

\* per-share values a series may hold: non-positive ones and fifth powers,
\* whose five-year growth factor is a rational
Values == {-1, 0, 1, 32}
\* values drawn for the entries that are not an end of the window
MidValues == {0, 32}

RECURSIVE Pow(_, _)
Pow(b, e) == IF e = 0 THEN 1 ELSE b * Pow(b, e - 1)

\* n ** (1 / k) for a k-th power n
Root(n, k) == CHOOSE r \in 0..MaxRoot : Pow(r, k) = n

\* calculate_cagr(start, end, years); start and end integers
calculate_cagr(start, end, years) ==
    IF start <= 0 \/ end <= 0 \/ years <= 0
    THEN RZero
    ELSE LET g == GCD(start, end)
         IN  RSub(Rat(Root(end \div g, years), Root(start \div g, years)), ROne)

\* values[start_index : start_index + 6] (Python slice, 0-based)
SubValues(vals, si) == SubSeq(vals, si + 1, si + 6)

\* MetricStep counting a series that is too short as a growth of 0
MetricStep_ShortCounts(det, gro, k, vals, si) ==
    IF Len(vals) < si + 6
    THEN <<det @@ (k :> 0), Append(gro, RZero)>>
    ELSE LET sub   == SubValues(vals, si)
             start == sub[1]
             end   == sub[6]
         IN  IF start > 0 /\ end > 0
             THEN LET cagr == calculate_cagr(start, end, 5)
                  IN  <<det @@ (k :> RoundPct(cagr)), Append(gro, cagr)>>
             ELSE <<det @@ (k :> 0), Append(gro, RZero)>>

\* MetricStep taking the entry before the window's last as its end
MetricStep_EndOffByOne(det, gro, k, vals, si) ==
    IF Len(vals) < si + 6
    THEN <<det @@ (k :> 0), gro>>
    ELSE LET sub   == SubValues(vals, si)
             start == sub[1]
             end   == sub[5]
         IN  IF start > 0 /\ end > 0
             THEN LET cagr == calculate_cagr(start, end, 5)
                  IN  <<det @@ (k :> RoundPct(cagr)), Append(gro, cagr)>>
             ELSE <<det @@ (k :> 0), Append(gro, RZero)>>

\* The body of the for loop for one item (k, vals) of data_dict: the new
\* <<details, growths>>.
MetricStep(det, gro, k, vals, si) ==
    IF Len(vals) < si + 6
    THEN <<det @@ (k :> 0), gro>>
    ELSE LET sub   == SubValues(vals, si)
             start == sub[1]
             end   == sub[6]
         IN  IF start > 0 /\ end > 0
             THEN LET cagr == calculate_cagr(start, end, 5)
                  IN  <<det @@ (k :> RoundPct(cagr)), Append(gro, cagr)>>
             ELSE <<det @@ (k :> 0), Append(gro, RZero)>>

\* avg_growth = sum(growths) / len(growths) if growths else 0
AvgGrowth(gro) ==
    IF gro # <<>> THEN RDiv(RSum(gro), RInt(Len(gro))) ELSE RZero

\* the metrics of data_dict in the order get_year_data_by_range builds it
MetricKeys == <<"book", "eps", "revenue", "cashflow">>

\* The series drawn for a metric: one entry too short for the window, ending
\* with the window, or one entry longer.  si entries precede the window; the
\* window is f, a, b, b, a, l.
SeriesSet(si) ==
    { Fill(a, si) \o <<f, a, b, b, a>> : f \in Values, a \in MidValues, b \in MidValues }
    \cup { Fill(a, si) \o <<f, a, b, b, a, l>> :
             f \in Values, a \in MidValues, b \in MidValues, l \in Values }
    \cup { Fill(a, si) \o <<f, a, b, b, a, l, b>> :
             f \in Values, a \in MidValues, b \in MidValues, l \in Values }

\* a local name of append_mos_to_csv that nothing has been assigned to yet
Unbound == ("unbound" :> 0)

ReportIdle ==
    /\ r_pc = "idle"
    /\ r_exception = ""
    /\ breach_year = BaseYear
    /\ start_year = BaseYear
    /\ metrics_raw = EmptyDict
    /\ r_details = Unbound
    /\ r_eps_now = 0
    /\ r_growth_rate = RZero
    /\ eps_list = <<>>
    /\ fair_value_history = <<>>
    /\ offset = -1
    /\ year_index = 0
    /\ r_eps = 0
    /\ r_year = BaseYear
    /\ growth_details = Unbound
    /\ stock_price = None
    /\ actual_date = None
    /\ r_ten_cap_price = None
    /\ ten_cap_str = None
    /\ intrinsic = Unbound
    /\ mos_summary = EmptyDict
    /\ saved = FALSE

\* a date, and the date before any the model looks at
Date(y, m, d) == [y |-> y, m |-> m, d |-> d]
NoDate == Date(0, 0, 0)

\* a date string "y-m-d", each field the sequence of its digits
DateStr(y, m, d) == [y |-> y, m |-> m, d |-> d]
NoDateStr == DateStr(<<>>, <<>>, <<>>)

PriceIdle ==
    /\ p_pc = "idle"
    /\ base_date_str = NoDateStr
    /\ closes = <<>>
    /\ base_date = NoDate
    /\ p_i = 0
    /\ current_date = NoDate
    /\ date_str = NoDateStr
    /\ price = None
    /\ lookups = <<>>
    /\ p_result = None

MainIdle ==
    /\ m_pc = "idle"
    /\ m_rest = <<>>
    /\ m_ticker = ""
    /\ m_breach_year = 0
    /\ m_start_year = 0
    /\ attempts = <<>>
    /\ outcome = EmptyDict

RangeIdle ==
    /\ y_pc = "idle"
    /\ y_start_year = 0
    /\ y_years = 0
    /\ y_income = <<>>
    /\ y_cashflow = <<>>
    /\ y_metrics = <<>>
    /\ y_year = 0
    /\ results = <<>>
    /\ book_list = <<>>
    /\ y_eps_list = <<>>
    /\ revenue_list = <<>>
    /\ cashflow_list = <<>>
    /\ mos_metrics = EmptyDict

GrowthIdle ==
    /\ g_pc = "idle"
    /\ data_start_year = BaseYear
    /\ target_year = BaseYear
    /\ start_index = 0
    /\ remaining = <<>>
    /\ key = ""
    /\ values = <<>>
    /\ details = EmptyDict
    /\ growths = <<>>
    /\ lens = EmptyDict

GrowthInit ==
    /\ RangeIdle
    /\ MainIdle
    /\ PriceIdle
    /\ IntrinsicIdle
    /\ TenCapIdle
    /\ ReportIdle
    /\ g_pc = "call"
    /\ data_start_year = BaseYear
    /\ target_year \in (BaseYear + 3)..(BaseYear + MaxSpan)
    /\ start_index = 0
    /\ remaining = <<>>
    /\ key = ""
    /\ values = <<>>
    /\ details = EmptyDict
    /\ growths = <<>>
    /\ lens = EmptyDict

\* line 65
StartIndex(target, start) == target - start - 5

\* line 66
InsufficientHistory_OffByOne(si) == si <= 0
InsufficientHistory(si) == si < 0

\* lines 65-70: the insufficient-history check and the empty accumulators
GrowthEnter ==
    /\ g_pc = "call"
    /\ start_index' = StartIndex(target_year, data_start_year)
    /\ IF InsufficientHistory(start_index')
       THEN g_pc' = "raised" /\ remaining' = remaining
       ELSE g_pc' = "loop" /\ remaining' = MetricKeys
    /\ UNCHANGED <<target_year, data_start_year, key, values, details, growths, lens>>
    /\ UNCHANGED <<intrinsicVars, tenCapVars, reportVars, priceVars, mainVars, rangeVars>>

\* lines 72-94: one iteration of the for loop
GrowthMetric ==
    /\ g_pc = "loop"
    /\ remaining # <<>>
    /\ \E vals \in SeriesSet(start_index) :
          LET r == MetricStep(details, growths, Head(remaining), vals, start_index)
          IN  /\ key' = Head(remaining)
              /\ values' = vals
              /\ details' = r[1]
              /\ growths' = r[2]
              /\ lens' = lens @@ (Head(remaining) :> Len(vals))
    /\ remaining' = Tail(remaining)
    /\ UNCHANGED <<g_pc, target_year, data_start_year, start_index>>
    /\ UNCHANGED <<intrinsicVars, tenCapVars, reportVars, priceVars, mainVars, rangeVars>>

\* lines 96-105: the average and the return
GrowthReturn ==
    /\ g_pc = "loop"
    /\ remaining = <<>>
    /\ details' = details @@ ("avg" :> RoundPct(AvgGrowth(growths)))
    /\ g_pc' = "returned"
    /\ UNCHANGED <<target_year, data_start_year, start_index, remaining,
                   key, values, growths, lens>>
    /\ UNCHANGED <<intrinsicVars, tenCapVars, reportVars, priceVars, mainVars, rangeVars>>

GrowthNext == GrowthEnter \/ GrowthMetric \/ GrowthReturn

GrowthSpec == GrowthInit /\ [][GrowthNext]_vars

\* the metrics visited so far whose series reaches the end of the window
LongEnough == { k \in DOMAIN lens : lens[k] >= start_index + 6 }

\* C1: mos_growth_estimate raises the insufficient-history error exactly when
\* target_year - data_start_year < 5; otherwise, whatever the lengths of the
\* series, it goes on to return a mapping of the four metrics and 'avg'.
C1_RaisesIffFewerThanFiveYears ==
    g_pc # "call" =>
        /\ (g_pc = "raised") <=> (target_year - data_start_year < 5)
        /\ g_pc = "loop" => Len(remaining) + Cardinality(DOMAIN details) = 4
        /\ g_pc = "returned" =>
              DOMAIN details = {"book", "eps", "revenue", "cashflow", "avg"}

C1_Witness ==
    /\ g_pc = "raised"
    /\ target_year - data_start_year = 4

\* C2 as claimed: 'avg' is the mean over all four metrics, a series that is
\* too short counting as 0, so the denominator is always 4.
C2_AvgOverAllMetrics ==
    g_pc = "returned" =>
        details["avg"] = RoundPct(RDiv(RSum(growths), RInt(4)))

\* C2 as amended: 'avg' is the mean over the metrics whose series has at
\* least start_index + 6 entries; a shorter series is reported as 0 but left
\* out of the average, and 'avg' is 0 when no metric has enough data.
C2_AvgOverLongEnoughMetrics ==
    g_pc = "returned" =>
        /\ \A k \in DOMAIN lens \ LongEnough : details[k] = 0
        /\ details["avg"] =
              IF LongEnough = {} THEN 0
              ELSE RoundPct(RDiv(RSum(growths), RInt(Cardinality(LongEnough))))

C2_Witness ==
    /\ g_pc = "returned"
    /\ Cardinality(LongEnough) = 3
    /\ details["avg"] = 3333

\* C3: for a series that holds the window, a first or last value <= 0 gives
\* the metric a growth of exactly 0 and adds a 0 to the average; two positive
\* ends give round(((last/first)^(1/5) - 1) * 100, 2); nothing else of the
\* series enters the result.
C3_GrowthFromWindowEnds ==
    (g_pc \in {"loop", "returned"} /\ key # "" /\ Len(values) >= start_index + 6) =>
        LET first == values[start_index + 1]
            last  == values[start_index + 6]
        IN  /\ Len(growths) = Cardinality(LongEnough)
            /\ IF first <= 0 \/ last <= 0
               THEN details[key] = 0 /\ growths[Len(growths)] = RZero
               ELSE \E p \in 1..MaxRoot, q \in 1..MaxRoot :
                       /\ Pow(p, 5) * first = Pow(q, 5) * last
                       /\ details[key] = RoundDiv(10000 * (p - q), q)
                       /\ growths[Len(growths)] = Rat(p - q, q)

C3_Witness ==
    /\ g_pc = "loop"
    /\ key = "eps"
    /\ Len(values) = start_index + 7
    /\ values[start_index + 1] = 32
    /\ values[start_index + 6] = 1
    /\ details[key] = -5000

(***************************************************************************)
(* One call of calculate_intrinsic_value                                   *)
(***************************************************************************)
IntrinsicInit ==
    /\ RangeIdle
    /\ MainIdle
    /\ PriceIdle
    /\ GrowthIdle
    /\ TenCapIdle
    /\ ReportIdle
    /\ i_pc = "call"
    /\ eps_now \in EpsSet
    /\ growth_rate \in GrowthRates
    /\ discount_rate \in DiscountRates
    /\ mos \in MosFractions
    /\ result = EmptyDict

\* lines 23-30: the guard is taken
IntrinsicDegenerate ==
    /\ i_pc = "call"
    /\ InvalidInput(eps_now, growth_rate)
    /\ result' = calculate_intrinsic_value(eps_now, growth_rate, discount_rate, mos)
    /\ i_pc' = "returned"
    /\ UNCHANGED <<eps_now, growth_rate, discount_rate, mos>>
    /\ UNCHANGED <<growthVars, tenCapVars, reportVars, priceVars, mainVars, rangeVars>>

\* lines 32-48: the projection
IntrinsicProject ==
    /\ i_pc = "call"
    /\ ~InvalidInput(eps_now, growth_rate)
    /\ result' = calculate_intrinsic_value(eps_now, growth_rate, discount_rate, mos)
    /\ i_pc' = "returned"
    /\ UNCHANGED <<eps_now, growth_rate, discount_rate, mos>>
    /\ UNCHANGED <<growthVars, tenCapVars, reportVars, priceVars, mainVars, rangeVars>>

IntrinsicNext == IntrinsicDegenerate \/ IntrinsicProject

IntrinsicSpec == IntrinsicInit /\ [][IntrinsicNext]_vars

FourFigures == {"EPS_10y", "Future Value", "Fair Value Today", "MOS Price (50%)"}

\* C5: calculate_intrinsic_value returns the degenerate result, the four
\* figures all 0, whenever eps_now <= 0 or growth_rate <= 0 (0 included), for
\* every discount_rate and mos, and the guard forces it in no other case.
C5_DegenerateIffNonPositiveInput ==
    i_pc = "returned" =>
        /\ (RLeq(eps_now, RZero) \/ RLeq(growth_rate, RZero)) <=>
              (DOMAIN result = FourFigures /\ \A k \in FourFigures : result[k] = 0)
        /\ FourFigures \subseteq DOMAIN result

C5_Witness ==
    /\ i_pc = "returned"
    /\ growth_rate = RZero
    /\ RLess(RZero, eps_now)
    /\ discount_rate = <<3, 20>>
    /\ \A k \in FourFigures : result[k] = 0

\* whether r hundredths is x rounded to two decimals, x the product of nums
\* over the product of dens: |100 x - r| <= 1/2
IsRound2(r, nums, dens) ==
    LET N   == BigProd(Compress(nums, 200))
        D   == BigProd(Compress(dens, 1))
        D2r == BigMulInt(D, 2 * r)
    IN  /\ r >= 0
        /\ BigCmp(D2r, BigAdd(N, D)) <= 0
        /\ BigCmp(N, BigAdd(D2r, D)) <= 0

\* C6: for eps_now > 0 and growth_rate > 0 the figures are, to two decimals,
\* EPS_10y = eps_now * (1 + g)^10, Future Value = EPS_10y * (g * 200),
\* Fair Value Today = Future Value / (1 + discount_rate)^10 and
\* MOS Price = Fair Value Today * (1 - mos), each from the unrounded one before.
C6_FiguresFollowFormulaChain ==
    (i_pc = "returned" /\ RLess(RZero, eps_now) /\ RLess(RZero, growth_rate)) =>
        LET en == eps_now[1]
            ed == eps_now[2]
            gn == growth_rate[1]
            gd == growth_rate[2]
            dn == discount_rate[1]
            dd == discount_rate[2]
            mn == mos[1]
            md == mos[2]
            g10n == Fill(gd + gn, 10)
            g10d == Fill(gd, 10)
            d10n == Fill(dd + dn, 10)
            d10d == Fill(dd, 10)
        IN  /\ IsRound2(result["EPS_10y"], <<en>> \o g10n, <<ed>> \o g10d)
            /\ IsRound2(result["Future Value"],
                        <<en, gn, 200>> \o g10n, <<ed, gd>> \o g10d)
            /\ IsRound2(result["Fair Value Today"],
                        <<en, gn, 200>> \o g10n \o d10d, <<ed, gd>> \o g10d \o d10n)
            /\ IsRound2(result["MOS Price (50%)"],
                        <<en, gn, 200, md - mn>> \o g10n \o d10d,
                        <<ed, gd, md>> \o g10d \o d10n)

C6_Witness ==
    /\ i_pc = "returned"
    /\ eps_now = <<1, 1>>
    /\ growth_rate = <<1, 10>>
    /\ discount_rate = <<3, 20>>
    /\ mos = <<1, 2>>
    /\ result["EPS_10y"] = 259
    /\ result["Future Value"] = 5187
    /\ result["Fair Value Today"] = 1282
    /\ result["MOS Price (50%)"] = 641

(***************************************************************************)
(* One call of calculate_ten_cap_price                                     *)
(***************************************************************************)
TenCapInit ==
    /\ RangeIdle
    /\ MainIdle
    /\ PriceIdle
    /\ GrowthIdle
    /\ IntrinsicIdle
    /\ ReportIdle
    /\ t_pc = "fetch"
    /\ t_exit = 0
    /\ t_last = ""
    /\ year = TheYear
    /\ income_data = Fetched({})
    /\ cashflow_data = Fetched({})
    /\ metrics = Fetched({})
    /\ fields = EmptyDict
    /\ profit_before_tax = None
    /\ depreciation = None
    /\ wc_components = None
    /\ maintenance_capex = None
    /\ shares_outstanding = None
    /\ ten_cap_price = None

\* a return statement: return None at the given line
ReturnNone(line) ==
    /\ t_pc' = "returned"
    /\ t_exit' = line
    /\ ten_cap_price' = None

\* the statement goes on to the next one
GoOn(next) ==
    /\ t_pc' = next
    /\ UNCHANGED <<t_exit, ten_cap_price>>

\* lines 129-135: the three fetches and the check that each gave records
TenCapFetch ==
    /\ t_pc = "fetch"
    /\ t_last' = "fetch"
    /\ \E i \in FetchResults, c \in FetchResults, m \in FetchResults :
          /\ income_data' = i
          /\ cashflow_data' = c
          /\ metrics' = m
          /\ IF FetchError \in {i, c, m} THEN ReturnNone(240)
             ELSE IF i.years = {} \/ c.years = {} \/ m.years = {} THEN ReturnNone(135)
             ELSE GoOn("find_year")
    /\ UNCHANGED <<year, fields, profit_before_tax, depreciation, wc_components,
                   maintenance_capex, shares_outstanding>>
    /\ UNCHANGED <<growthVars, intrinsicVars, reportVars, priceVars, mainVars, rangeVars>>

\* lines 137-147: the records of the year
TenCapFindYear ==
    /\ t_pc = "find_year"
    /\ t_last' = "find_year"
    /\ IF \/ year \notin income_data.years
          \/ year \notin cashflow_data.years
          \/ year \notin metrics.years
       THEN ReturnNone(147)
       ELSE GoOn("profit")
    /\ UNCHANGED <<year, income_data, cashflow_data, metrics, fields,
                   profit_before_tax, depreciation, wc_components,
                   maintenance_capex, shares_outstanding>>
    /\ UNCHANGED <<growthVars, intrinsicVars, reportVars, priceVars, mainVars, rangeVars>>

\* line 153
TenCapProfit ==
    /\ t_pc = "profit"
    /\ t_last' = "profit"
    /\ \E raw \in ProfitRaws :
          /\ fields' = ("incomeBeforeTax" :> raw)
          /\ IF RaisesTypeError(Get(raw))
             THEN ReturnNone(240) /\ UNCHANGED profit_before_tax
             ELSE GoOn("depreciation") /\ profit_before_tax' = Millions(Get(raw))
    /\ UNCHANGED <<year, income_data, cashflow_data, metrics, depreciation,
                   wc_components, maintenance_capex, shares_outstanding>>
    /\ UNCHANGED <<growthVars, intrinsicVars, reportVars, priceVars, mainVars, rangeVars>>

\* lines 166-168, run when depreciation == 0: value / MILLION of every
\* depreciation field of the record
DepreciationLogRaises(cands) ==
    \E i \in 1..Len(cands) : cands[i] # Absent /\ RaisesTypeError(cands[i])

\* lines 155-168
TenCapDepreciation ==
    /\ t_pc = "depreciation"
    /\ t_last' = "depreciation"
    /\ \E c1 \in DepreciationRaws(1), c2 \in DepreciationRaws(2),
          c3 \in DepreciationRaws(3), c4 \in DepreciationRaws(4) :
          LET cands == <<c1, c2, c3, c4>>
              raw   == OrChain(cands)
          IN  /\ fields' = Dict(DepreciationKeys, cands)
              /\ IF RaisesTypeError(raw)
                 THEN ReturnNone(240) /\ UNCHANGED depreciation
                 ELSE IF Millions(raw) = RZero /\ DepreciationLogRaises(cands)
                 THEN ReturnNone(240) /\ depreciation' = Millions(raw)
                 ELSE GoOn("working_capital") /\ depreciation' = Millions(raw)
    /\ UNCHANGED <<year, income_data, cashflow_data, metrics, profit_before_tax,
                   wc_components, maintenance_capex, shares_outstanding>>
    /\ UNCHANGED <<growthVars, intrinsicVars, reportVars, priceVars, mainVars, rangeVars>>

\* line 171 and lines 85-114: calculate_working_capital_change
TenCapWorkingCapital ==
    /\ t_pc = "working_capital"
    /\ t_last' = "working_capital"
    /\ \E ar \in ReceivablesRaws, ap \in PayablesRaws :
          /\ fields' = ("accountsReceivables" :> ar) @@ ("accountsPayables" :> ap)
          /\ IF RaisesTypeError(Get(ar)) \/ RaisesTypeError(Get(ap))
             THEN ReturnNone(240) /\ UNCHANGED wc_components
             ELSE /\ GoOn("capex")
                  /\ wc_components' =
                        [accounts_receivable |-> Millions(Get(ar)),
                         accounts_payable |-> Millions(Get(ap))]
    /\ UNCHANGED <<year, income_data, cashflow_data, metrics, profit_before_tax,
                   depreciation, maintenance_capex, shares_outstanding>>
    /\ UNCHANGED <<growthVars, intrinsicVars, reportVars, priceVars, mainVars, rangeVars>>

\* line 173
TenCapCapex ==
    /\ t_pc = "capex"
    /\ t_last' = "capex"
    /\ \E raw \in CapexRaws :
          /\ fields' = ("capitalExpenditure" :> raw)
          /\ IF RaisesTypeError(Get(raw))
             THEN ReturnNone(240) /\ UNCHANGED maintenance_capex
             ELSE GoOn("shares") /\ maintenance_capex' = RAbs(Millions(Get(raw)))
    /\ UNCHANGED <<year, income_data, cashflow_data, metrics, profit_before_tax,
                   depreciation, wc_components, shares_outstanding>>
    /\ UNCHANGED <<growthVars, intrinsicVars, reportVars, priceVars, mainVars, rangeVars>>

\* lines 175-185
TenCapShares ==
    /\ t_pc = "shares"
    /\ t_last' = "shares"
    /\ \E c1 \in SharesRaws(1), c2 \in SharesRaws(2),
          c3 \in SharesRaws(3), c4 \in SharesRaws(4) :
          LET cands == <<c1, c2, c3, c4>>
              raw   == OrChain(cands)
          IN  /\ fields' = Dict(SharesKeys, cands)
              /\ IF RaisesTypeError(raw)
                 THEN ReturnNone(240) /\ UNCHANGED shares_outstanding
                 ELSE /\ shares_outstanding' = Millions(raw)
                      /\ IF SharesInvalid(Millions(raw))
                         THEN ReturnNone(185)
                         ELSE GoOn("compute")
    /\ UNCHANGED <<year, income_data, cashflow_data, metrics, profit_before_tax,
                   depreciation, wc_components, maintenance_capex>>
    /\ UNCHANGED <<growthVars, intrinsicVars, reportVars, priceVars, mainVars, rangeVars>>

\* lines 207-236
TenCapCompute ==
    /\ t_pc = "compute"
    /\ t_last' = "compute"
    /\ LET working_capital_change ==
               RAdd(wc_components.accounts_receivable, wc_components.accounts_payable)
           owner_earnings ==
               calculate_owner_earnings(profit_before_tax, depreciation,
                                        working_capital_change, maintenance_capex)
       IN  ten_cap_price' = TenCapPrice(owner_earnings, shares_outstanding)
    /\ t_pc' = "returned"
    /\ t_exit' = 236
    /\ UNCHANGED <<year, income_data, cashflow_data, metrics, fields,
                   profit_before_tax, depreciation, wc_components,
                   maintenance_capex, shares_outstanding>>
    /\ UNCHANGED <<growthVars, intrinsicVars, reportVars, priceVars, mainVars, rangeVars>>

TenCapNext ==
    \/ TenCapFetch
    \/ TenCapFindYear
    \/ TenCapProfit
    \/ TenCapDepreciation
    \/ TenCapWorkingCapital
    \/ TenCapCapex
    \/ TenCapShares
    \/ TenCapCompute

TenCapSpec == TenCapInit /\ [][TenCapNext]_vars

\* whether the year asked for is in each of the three collections
YearInAll ==
    /\ year \in income_data.years
    /\ year \in cashflow_data.years
    /\ year \in metrics.years

\* C7: calculate_ten_cap_price returns None, and neither raises nor returns
\* a number, whenever the year is absent from one of the three collections
\* and whenever the share count resolved is <= 0.
C7_NoneOnMissingYearOrNoShares ==
    t_pc = "returned" =>
        /\ ~YearInAll => (ten_cap_price = None /\ t_exit \in {135, 147, 240})
        /\ (shares_outstanding # None /\ RLeq(shares_outstanding, RZero)) =>
              (ten_cap_price = None /\ t_exit = 185)

C7_Witness ==
    /\ t_pc = "returned"
    /\ YearInAll
    /\ shares_outstanding = RZero
    /\ ten_cap_price = None

\* C8 as claimed: with the year's records present, a field that is missing,
\* null or a text is taken as 0 and the price is a number; the result is None
\* only for a share count <= 0.
C8_BadFieldsCountAsZero ==
    (t_pc = "returned" /\ YearInAll) =>
        (ten_cap_price = None <=>
            (shares_outstanding # None /\ RLeq(shares_outstanding, RZero)))

\* whether a field read alone is no number
NotANumber(k) == fields[k].t \in {"null", "text"}

\* the amount in millions a field read alone stands for, a missing key as 0
AmountOf(k) == IF fields[k].t = "num" THEN Rat(fields[k].v, MILLION) ELSE RZero

\* the positions of the candidates that `or` stops at
Stops(keys) ==
    { i \in 1..Len(keys) :
        fields[keys[i]].t = "text" \/ (fields[keys[i]].t = "num" /\ fields[keys[i]].v # 0) }

Min(S) == CHOOSE i \in S : \A j \in S : i <= j

\* whether the chain over the candidates resolves to a text or a null
ChainNotANumber(keys) ==
    IF Stops(keys) = {} THEN fields[keys[Len(keys)]].t = "null"
    ELSE fields[keys[Min(Stops(keys))]].t = "text"

\* C8 as amended: a missing key is taken as 0 and the computation goes on; a
\* null or a text is not: where it reaches arithmetic (incomeBeforeTax,
\* accountsReceivables, accountsPayables, capitalExpenditure, the value a
\* fallback chain resolves to, a null depreciation field when depreciation
\* resolves to 0) the TypeError is caught and the result is None.  With the
\* year's records present the result is None exactly for such a TypeError or
\* a share count <= 0.
C8_TypeErrorsGiveNone ==
    /\ t_last = "profit" =>
          /\ (t_exit = 240) <=> NotANumber("incomeBeforeTax")
          /\ t_exit = 0 => profit_before_tax = AmountOf("incomeBeforeTax")
    /\ t_last = "working_capital" =>
          /\ (t_exit = 240) <=>
                (NotANumber("accountsReceivables") \/ NotANumber("accountsPayables"))
          /\ t_exit = 0 =>
                /\ wc_components.accounts_receivable = AmountOf("accountsReceivables")
                /\ wc_components.accounts_payable = AmountOf("accountsPayables")
    /\ t_last = "capex" =>
          /\ (t_exit = 240) <=> NotANumber("capitalExpenditure")
          /\ t_exit = 0 => maintenance_capex = RAbs(AmountOf("capitalExpenditure"))
    /\ t_last = "depreciation" =>
          ((t_exit = 240) <=>
              \/ ChainNotANumber(DepreciationKeys)
              \/ /\ Stops(DepreciationKeys) = {}
                 /\ \E i \in 1..4 : fields[DepreciationKeys[i]].t = "null")
    /\ t_last = "shares" =>
          ((t_exit = 240) <=> ChainNotANumber(SharesKeys))
    /\ (t_pc = "returned" /\ YearInAll) =>
          /\ (ten_cap_price = None) <=> (t_exit \in {185, 240})
          /\ (t_exit = 185) <=>
                (shares_outstanding # None /\ RLeq(shares_outstanding, RZero))
          /\ t_exit = 240 => t_last \notin {"fetch", "find_year", "compute"}

C8_Witness ==
    /\ t_pc = "returned"
    /\ t_last = "capex"
    /\ fields["capitalExpenditure"] = Null
    /\ profit_before_tax = RZero
    /\ ten_cap_price = None

\* C9: with the three records present and a share count > 0 the price is
\* (profit_before_tax + depreciation + (accountsReceivables + accountsPayables)
\* - 0.5 * |capitalExpenditure|) / shares_outstanding / 0.10, amounts in
\* millions; the sign of capitalExpenditure does not matter, and negative
\* owner earnings give a negative price, not None.
C9_PriceIsOwnerEarningsPerShareOverTenPercent ==
    /\ (t_last = "capex" /\ t_exit = 0) =>
          maintenance_capex =
              Rat(IF fields["capitalExpenditure"].v < 0
                  THEN -fields["capitalExpenditure"].v
                  ELSE fields["capitalExpenditure"].v, MILLION)
    /\ (t_last = "compute") =>
          /\ t_exit = 236
          /\ ten_cap_price # None
          /\ RMul(RMul(ten_cap_price, <<1, 10>>), shares_outstanding) =
                RSub(RAdd(RAdd(profit_before_tax, depreciation),
                          RAdd(wc_components.accounts_receivable,
                               wc_components.accounts_payable)),
                     RDiv(maintenance_capex, <<2, 1>>))
    /\ (t_pc = "returned" /\ YearInAll /\ shares_outstanding # None
          /\ RLess(RZero, shares_outstanding)) => t_last = "compute"

C9_Witness ==
    /\ t_exit = 236
    /\ profit_before_tax = <<100, 1>>
    /\ depreciation = <<20, 1>>
    /\ wc_components.accounts_receivable = <<-15, 1>>
    /\ wc_components.accounts_payable = <<10, 1>>
    /\ maintenance_capex = <<10, 1>>
    /\ shares_outstanding = <<50, 1>>
    /\ ten_cap_price = <<22, 1>>

\* the first candidate, in the order of keys, that is a non-zero number, in
\* dollars; 0 when there is none
FirstNonZero(keys) ==
    LET nz == { i \in 1..Len(keys) :
                  fields[keys[i]].t = "num" /\ fields[keys[i]].v # 0 }
    IN  IF nz = {} THEN 0 ELSE fields[keys[Min(nz)]].v

\* C10: depreciation and shares outstanding are each the first non-zero value
\* in the fixed order of their candidates, a later candidate being used only
\* when no earlier one holds a non-zero value; with all four depreciation
\* candidates absent or 0 the computation goes on with depreciation 0.
C10_FirstNonZeroCandidate ==
    /\ (t_last = "depreciation" /\ t_exit # 240) =>
          depreciation = Rat(FirstNonZero(DepreciationKeys), MILLION)
    /\ (t_last = "depreciation"
          /\ \A i \in 1..4 : fields[DepreciationKeys[i]] \in {Absent, Num(0)}) =>
          (t_pc = "working_capital" /\ depreciation = RZero)
    /\ (t_last = "shares" /\ t_exit # 240) =>
          shares_outstanding = Rat(FirstNonZero(SharesKeys), MILLION)

C10_Witness ==
    /\ t_last = "depreciation"
    /\ t_pc = "working_capital"
    /\ fields[DepreciationKeys[1]] = Num(0)
    /\ fields[DepreciationKeys[2]] = Absent
    /\ fields[DepreciationKeys[3]] = Num(22 * MILLION)
    /\ fields[DepreciationKeys[4]] = Num(23 * MILLION)
    /\ depreciation = <<22, 1>>

(***************************************************************************)
(* One call of append_mos_to_csv                                           *)
(***************************************************************************)
\* required_years of main.py: the length of a full series
ReportLen == 10

\* series of n entries: 1 for the first five years and 32 after, the
\* reverse, 32 between two stretches of 1, and 0 throughout
Rising(n) == [i \in 1..n |-> IF i <= 5 THEN 1 ELSE 32]
Falling(n) == [i \in 1..n |-> IF i <= 5 THEN 32 ELSE 1]
Peak(n) == [i \in 1..n |-> IF i <= 5 \/ i >= ReportLen THEN 1 ELSE 32]
Flat(n) == [i \in 1..n |-> 0]

\* the EPS series drawn: none, and each shape cut after 5, 6 or all entries
EpsSeries ==
    {<<>>} \cup UNION { {Rising(n), Falling(n), Peak(n), Flat(n)} :
                          n \in {5, 6, ReportLen} }

\* the values of metrics_raw drawn, with the four keys that
\* get_year_data_by_range gives it
MetricsRawSet ==
    { ("book" :> b) @@ ("eps" :> e) @@ ("revenue" :> r) @@ ("cashflow" :> c) :
        b \in {Rising(ReportLen), Flat(ReportLen)},
        e \in EpsSeries,
        r \in {Rising(ReportLen), Falling(ReportLen)},
        c \in {Peak(ReportLen), Rising(5)} }

\* what get_valid_price may return: (None, None), or a price with its date
PriceResults == { <<None, None>>, <<<<15025>>, <<2>>>> }

\* what calculate_ten_cap_price may return
TenCapResults == { None, <<22, 1>> }

\* growth_estimation.py lines 69-94: the for loop over data_dict.items()
RECURSIVE EstimateLoop(_, _, _, _, _)
EstimateLoop(det, gro, keys, data, si) ==
    IF keys = <<>> THEN <<det, gro>>
    ELSE LET r == MetricStep(det, gro, Head(keys), data[Head(keys)], si)
         IN  EstimateLoop(r[1], r[2], Tail(keys), data, si)

\* mos_growth_estimate(data_dict, target_year, data_start_year) when it
\* does not raise
mos_growth_estimate(data, target, start) ==
    LET r == EstimateLoop(EmptyDict, <<>>, MetricKeys, data, StartIndex(target, start))
    IN  r[1] @@ ("avg" :> RoundPct(AvgGrowth(r[2])))

\* whether mos_growth_estimate raises ValueError
EstimateRaises(target, start) == InsufficientHistory(StartIndex(target, start))

\* details.get("avg", 0) / 100
AvgAsRate(det) == Rat(det["avg"], 10000)

\* f"{x:.2f}" of a rational, in hundredths
Format2(x) == RoundDiv(100 * x[1], x[2])

ReportInit ==
    /\ RangeIdle
    /\ MainIdle
    /\ PriceIdle
    /\ GrowthIdle
    /\ IntrinsicIdle
    /\ TenCapIdle
    /\ r_pc = "call"
    /\ r_exception = ""
    /\ start_year = BaseYear
    /\ breach_year \in (BaseYear + 4)..(BaseYear + MaxSpan)
    /\ metrics_raw \in MetricsRawSet
    /\ r_details = Unbound
    /\ r_eps_now = 0
    /\ r_growth_rate = RZero
    /\ eps_list = <<>>
    /\ fair_value_history = <<>>
    /\ offset = -1
    /\ year_index = 0
    /\ r_eps = 0
    /\ r_year = BaseYear
    /\ growth_details = Unbound
    /\ stock_price = None
    /\ actual_date = None
    /\ r_ten_cap_price = None
    /\ ten_cap_str = None
    /\ intrinsic = Unbound
    /\ mos_summary = EmptyDict
    /\ saved = FALSE

\* an exception leaves append_mos_to_csv
ReportRaise(exception) ==
    /\ r_pc' = "raised"
    /\ r_exception' = exception

\* lines 30-39: the estimate for the breach year, outside any try
ReportEstimate ==
    /\ r_pc = "call"
    /\ IF EstimateRaises(breach_year, start_year)
       THEN /\ ReportRaise("ValueError")
            /\ UNCHANGED r_details
       ELSE /\ r_details' = mos_growth_estimate(metrics_raw, breach_year, start_year)
            /\ r_pc' = "eps_now"
            /\ UNCHANGED r_exception
    /\ UNCHANGED <<breach_year, start_year, metrics_raw, r_eps_now, r_growth_rate,
                   eps_list, fair_value_history, offset, year_index, r_eps, r_year,
                   growth_details, stock_price, actual_date, r_ten_cap_price,
                   ten_cap_str, intrinsic, mos_summary, saved>>
    /\ UNCHANGED <<growthVars, intrinsicVars, tenCapVars, priceVars, mainVars, rangeVars>>

\* lines 42-50: eps_now, growth_rate, eps_list and the empty history
ReportEpsNow ==
    /\ r_pc = "eps_now"
    /\ LET eps_values == metrics_raw["eps"]
           d == breach_year - start_year
       IN  r_eps_now' = IF Len(eps_values) > d THEN eps_values[d + 1]
                        ELSE IF eps_values # <<>> THEN eps_values[Len(eps_values)]
                        ELSE 0
    /\ r_growth_rate' = AvgAsRate(r_details)
    /\ eps_list' = metrics_raw["eps"]
    /\ fair_value_history' = <<>>
    /\ offset' = -1
    /\ r_pc' = "loop"
    /\ UNCHANGED <<r_exception, breach_year, start_year, metrics_raw, r_details,
                   year_index, r_eps, r_year, growth_details, stock_price,
                   actual_date, r_ten_cap_price, ten_cap_str, intrinsic,
                   mos_summary, saved>>
    /\ UNCHANGED <<growthVars, intrinsicVars, tenCapVars, priceVars, mainVars, rangeVars>>

\* lines 52-56: the head of the for loop over range(-1, 4) and the test of
\* year_index; offset = 4 stands for the exhausted range
ReportLoop ==
    /\ r_pc = "loop"
    /\ IF offset > 3
       THEN /\ r_pc' = "summary"
            /\ UNCHANGED <<offset, year_index, r_eps, r_year>>
       ELSE /\ year_index' = breach_year - start_year + offset
            /\ IF 0 <= year_index' /\ year_index' < Len(eps_list)
               THEN /\ r_eps' = eps_list[year_index' + 1]
                    /\ r_year' = start_year + year_index'
                    /\ r_pc' = "estimate"
                    /\ UNCHANGED offset
               ELSE /\ offset' = offset + 1
                    /\ r_pc' = "loop"
                    /\ UNCHANGED <<r_eps, r_year>>
    /\ UNCHANGED <<r_exception, breach_year, start_year, metrics_raw, r_details,
                   r_eps_now, r_growth_rate, eps_list, fair_value_history,
                   growth_details, stock_price, actual_date, r_ten_cap_price,
                   ten_cap_str, intrinsic, mos_summary, saved>>
    /\ UNCHANGED <<growthVars, intrinsicVars, tenCapVars, priceVars, mainVars, rangeVars>>

\* lines 58-68: the estimate for the year, inside try ... except Exception
ReportYearEstimate ==
    /\ r_pc = "estimate"
    /\ IF EstimateRaises(r_year, start_year)
       THEN /\ r_growth_rate' = RZero
            /\ UNCHANGED growth_details
       ELSE /\ growth_details' = mos_growth_estimate(metrics_raw, r_year, start_year)
            /\ r_growth_rate' = AvgAsRate(growth_details')
    /\ r_pc' = "price"
    /\ UNCHANGED <<r_exception, breach_year, start_year, metrics_raw, r_details,
                   r_eps_now, eps_list, fair_value_history, offset, year_index,
                   r_eps, r_year, stock_price, actual_date, r_ten_cap_price,
                   ten_cap_str, intrinsic, mos_summary, saved>>
    /\ UNCHANGED <<growthVars, intrinsicVars, tenCapVars, priceVars, mainVars, rangeVars>>

\* lines 70-72: the historical stock price
ReportPrice ==
    /\ r_pc = "price"
    /\ \E p \in PriceResults :
          /\ stock_price' = p[1]
          /\ actual_date' = p[2]
    /\ r_pc' = "ten_cap"
    /\ UNCHANGED <<r_exception, breach_year, start_year, metrics_raw, r_details,
                   r_eps_now, r_growth_rate, eps_list, fair_value_history, offset,
                   year_index, r_eps, r_year, growth_details, r_ten_cap_price,
                   ten_cap_str, intrinsic, mos_summary, saved>>
    /\ UNCHANGED <<growthVars, intrinsicVars, tenCapVars, priceVars, mainVars, rangeVars>>

\* lines 74-76: the ten-cap price and its text
ReportTenCap ==
    /\ r_pc = "ten_cap"
    /\ \E p \in TenCapResults :
          /\ r_ten_cap_price' = p
          /\ ten_cap_str' = IF p # None THEN <<Format2(p)>> ELSE None
    /\ r_pc' = "intrinsic"
    /\ UNCHANGED <<r_exception, breach_year, start_year, metrics_raw, r_details,
                   r_eps_now, r_growth_rate, eps_list, fair_value_history, offset,
                   year_index, r_eps, r_year, growth_details, stock_price,
                   actual_date, intrinsic, mos_summary, saved>>
    /\ UNCHANGED <<growthVars, intrinsicVars, tenCapVars, priceVars, mainVars, rangeVars>>

\* lines 78-85: the intrinsic value with the growth rate of the year
ReportIntrinsic ==
    /\ r_pc = "intrinsic"
    /\ intrinsic' = calculate_intrinsic_value(RInt(r_eps), r_growth_rate,
                                              <<3, 20>>, <<1, 2>>)
    /\ r_pc' = "row"
    /\ UNCHANGED <<r_exception, breach_year, start_year, metrics_raw, r_details,
                   r_eps_now, r_growth_rate, eps_list, fair_value_history, offset,
                   year_index, r_eps, r_year, growth_details, stock_price,
                   actual_date, r_ten_cap_price, ten_cap_str, mos_summary, saved>>
    /\ UNCHANGED <<growthVars, intrinsicVars, tenCapVars, priceVars, mainVars, rangeVars>>

\* lines 87-99: the row of the year
Row ==
    [Year |-> r_year,
     EPS |-> 100 * r_eps,
     EPS10y |-> intrinsic["EPS_10y"],
     FutureValue |-> intrinsic["Future Value"],
     FairValueMOS |-> intrinsic["Fair Value Today"],
     MOSPrice |-> intrinsic["MOS Price (50%)"],
     TenCapBuyPrice |-> ten_cap_str,
     FairValueTenCap |-> IF r_ten_cap_price # None
                         THEN <<Format2(RMul(r_ten_cap_price, <<2, 1>>))>>
                         ELSE None,
     GrowthRate |-> growth_details["avg"],
     StockPrice |-> stock_price,
     PriceDateUsed |-> actual_date]

\* lines 87-99: the row is appended, or reading growth_details raises
ReportRow ==
    /\ r_pc = "row"
    /\ IF growth_details = Unbound
       THEN /\ ReportRaise("UnboundLocalError")
            /\ UNCHANGED <<fair_value_history, offset>>
       ELSE /\ fair_value_history' = Append(fair_value_history, Row)
            /\ offset' = offset + 1
            /\ r_pc' = "loop"
            /\ UNCHANGED r_exception
    /\ UNCHANGED <<breach_year, start_year, metrics_raw, r_details, r_eps_now,
                   r_growth_rate, eps_list, year_index, r_eps, r_year,
                   growth_details, stock_price, actual_date, r_ten_cap_price,
                   ten_cap_str, intrinsic, mos_summary, saved>>
    /\ UNCHANGED <<growthVars, intrinsicVars, tenCapVars, priceVars, mainVars, rangeVars>>

\* lines 103-115: the summary block
Summary ==
    [BookCAGR |-> r_details["book"],
     EPSCAGR |-> r_details["eps"],
     RevenueCAGR |-> r_details["revenue"],
     CashflowCAGR |-> r_details["cashflow"],
     AvgGrowthRate |-> r_details["avg"],
     EPS10y |-> intrinsic["EPS_10y"],
     FutureValue |-> intrinsic["Future Value"],
     FairValueMOS |-> intrinsic["Fair Value Today"],
     MOSPrice |-> intrinsic["MOS Price (50%)"],
     TenCapBuyPrice |-> ten_cap_str,
     FairValueTenCap |-> IF r_ten_cap_price # None
                         THEN <<Format2(RMul(r_ten_cap_price, <<2, 1>>))>>
                         ELSE None]

\* lines 101-115: the summary is built, or reading intrinsic raises
ReportSummary ==
    /\ r_pc = "summary"
    /\ IF intrinsic = Unbound
       THEN /\ ReportRaise("UnboundLocalError")
            /\ UNCHANGED mos_summary
       ELSE /\ mos_summary' = Summary
            /\ r_pc' = "save"
            /\ UNCHANGED r_exception
    /\ UNCHANGED <<breach_year, start_year, metrics_raw, r_details, r_eps_now,
                   r_growth_rate, eps_list, fair_value_history, offset, year_index,
                   r_eps, r_year, growth_details, stock_price, actual_date,
                   r_ten_cap_price, ten_cap_str, intrinsic, saved>>
    /\ UNCHANGED <<growthVars, intrinsicVars, tenCapVars, priceVars, mainVars, rangeVars>>

\* lines 117-131: the report is written and returned
ReportSave ==
    /\ r_pc = "save"
    /\ saved' = TRUE
    /\ r_pc' = "returned"
    /\ UNCHANGED <<r_exception, breach_year, start_year, metrics_raw, r_details,
                   r_eps_now, r_growth_rate, eps_list, fair_value_history, offset,
                   year_index, r_eps, r_year, growth_details, stock_price,
                   actual_date, r_ten_cap_price, ten_cap_str, intrinsic, mos_summary>>
    /\ UNCHANGED <<growthVars, intrinsicVars, tenCapVars, priceVars, mainVars, rangeVars>>

ReportNext ==
    \/ ReportEstimate
    \/ ReportEpsNow
    \/ ReportLoop
    \/ ReportYearEstimate
    \/ ReportPrice
    \/ ReportTenCap
    \/ ReportIntrinsic
    \/ ReportRow
    \/ ReportSummary
    \/ ReportSave

ReportSpec == ReportInit /\ [][ReportNext]_vars

\* the states in which the computation for r_year has gone past its estimate
PastYearEstimate == r_pc \in {"price", "ten_cap", "intrinsic", "row"}

\* C4: when the growth estimator fails with insufficient history for a year
\* of the report, the failure leaves the per-year computation as that
\* ValueError; the computation of the year never goes on with a default
\* growth rate of 0 in its place.
C4_InsufficientHistoryPropagates ==
    /\ PastYearEstimate => ~EstimateRaises(r_year, start_year)
    /\ (r_pc = "raised" /\ EstimateRaises(r_year, start_year)) =>
          r_exception = "ValueError"

\* the year's intrinsic value computed from the default growth rate 0 after
\* the estimate for the year has failed
C4_Witness ==
    /\ r_pc = "row"
    /\ EstimateRaises(r_year, start_year)
    /\ ~EstimateRaises(breach_year, start_year)
    /\ r_growth_rate = RZero
    /\ intrinsic = ZeroResult
    /\ r_eps > 0

(***************************************************************************)
(* fmp_api.py: one call of get_valid_price                                 *)
(***************************************************************************)
\* range(14): the number of dates tried
SearchDays == 14

IsLeap(y) == (y % 4 = 0 /\ y % 100 # 0) \/ y % 400 = 0

DaysInMonth(y, m) ==
    IF m = 2 THEN (IF IsLeap(y) THEN 29 ELSE 28)
    ELSE IF m \in {4, 6, 9, 11} THEN 30 ELSE 31

\* the calendar stepping back over the end of February as if no year were
\* a leap year
PrevDay_NoLeapYears(dt) ==
    IF dt.d > 1 THEN Date(dt.y, dt.m, dt.d - 1)
    ELSE IF dt.m = 3 THEN Date(dt.y, 2, 28)
    ELSE IF dt.m > 1 THEN Date(dt.y, dt.m - 1, DaysInMonth(dt.y, dt.m - 1))
    ELSE Date(dt.y - 1, 12, 31)

\* date - timedelta(days=1)
PrevDay(dt) ==
    IF dt.d > 1 THEN Date(dt.y, dt.m, dt.d - 1)
    ELSE IF dt.m > 1 THEN Date(dt.y, dt.m - 1, DaysInMonth(dt.y, dt.m - 1))
    ELSE Date(dt.y - 1, 12, 31)

\* date - timedelta(days=n)
RECURSIVE MinusDays(_, _)
MinusDays(dt, n) ==
    IF n = 0 THEN dt
    ELSE CHOOSE r \in { MinusDays(p, n - 1) : p \in {PrevDay(dt)} } : TRUE

\* the number a sequence of decimal digits stands for
RECURSIVE DigitsToInt(_)
DigitsToInt(ds) ==
    IF ds = <<>> THEN 0
    ELSE 10 * DigitsToInt(SubSeq(ds, 1, Len(ds) - 1)) + ds[Len(ds)]

\* the last w decimal digits of n, zero-padded
Pad(n, w) == [k \in 1..w |-> (n \div Pow(10, w - k)) % 10]

\* datetime.strptime(s, "%Y-%m-%d"): whether it raises ValueError
StrptimeRaises(s) ==
    \/ Len(s.y) # 4
    \/ Len(s.m) \notin {1, 2}
    \/ Len(s.d) \notin {1, 2}
    \/ DigitsToInt(s.m) \notin 1..12
    \/ DigitsToInt(s.d) \notin 1..DaysInMonth(DigitsToInt(s.y), DigitsToInt(s.m))

\* datetime.strptime(s, "%Y-%m-%d") when it does not raise
strptime(s) == Date(DigitsToInt(s.y), DigitsToInt(s.m), DigitsToInt(s.d))

\* date.strftime("%Y-%m-%d")
strftime(dt) == DateStr(Pad(dt.y, 4), Pad(dt.m, 2), Pad(dt.d, 2))

\* the days of the year before month m
DaysBeforeMonth(y, m) ==
    <<0, 31, 59, 90, 120, 151, 181, 212, 243, 273, 304, 334>>[m]
    + (IF m > 2 /\ IsLeap(y) THEN 1 ELSE 0)

\* the day number of a date in the proleptic Gregorian calendar
Ordinal(dt) ==
    LET y1 == dt.y - 1
    IN  365 * y1 + (y1 \div 4) - (y1 \div 100) + (y1 \div 400)
        + DaysBeforeMonth(dt.y, dt.m) + dt.d

\* what the provider answers to the request for one date: the request fails,
\* the answer holds no "historical" records, or it holds a close
TransportError == [t |-> "error", v |-> 0]
NoHistorical == [t |-> "nodata", v |-> 0]
Close(c) == [t |-> "close", v |-> c]

\* the days before the base date whose answer is drawn; every other day of
\* the window has no record
DrawnDays == {0, 1, 10, SearchDays - 1, SearchDays}

Answers(k) == { NoHistorical, TransportError, Close(0), Close(15000 + k) }

\* the providers drawn, over the days 0 .. SearchDays + 1 before the base date
Providers ==
    { [k \in 0..(SearchDays + 1) |-> IF k \in DrawnDays THEN f[k] ELSE NoHistorical] :
        f \in { g \in [DrawnDays -> UNION { Answers(k) : k \in DrawnDays }] :
                   \A k \in DrawnDays : g[k] \in Answers(k) } }

\* the base dates drawn: csv_report's f"{year}-12-31", a date after the end
\* of February in a leap year written without padding, a date early in
\* January, and a string that is no date
BaseDateStrs ==
    { strftime(Date(TheYear, 12, 31)),
      DateStr(<<2, 0, 2, 0>>, <<3>>, <<5>>),
      DateStr(<<2, 0, 2, 1>>, <<0, 1>>, <<1, 0>>),
      DateStr(<<2, 0, 1, 9>>, <<0, 2>>, <<3, 0>>) }

\* the provider's answer to the request for the date string s
Provider(s) ==
    LET k == Ordinal(strptime(base_date_str)) - Ordinal(strptime(s))
    IN  IF k \in DOMAIN closes THEN closes[k] ELSE NoHistorical

\* lines 88-105: get_price_on_date, given the provider's answer
get_price_on_date(answer) ==
    IF answer.t = "close" THEN <<answer.v>> ELSE None

\* the test taking a close of 0 for a price
PriceFound_ZeroCounts(pr) == pr # None

\* line 124: if price
PriceFound(pr) == pr # None /\ pr[1] # 0

\* before the call
PriceInit ==
    /\ RangeIdle
    /\ MainIdle
    /\ GrowthIdle
    /\ IntrinsicIdle
    /\ TenCapIdle
    /\ ReportIdle
    /\ PriceIdle

\* the call get_valid_price(ticker, base_date_str), the provider being in
\* one of the states drawn
PriceCall ==
    /\ p_pc = "idle"
    /\ p_pc' = "call"
    /\ base_date_str' \in BaseDateStrs
    /\ closes' \in Providers
    /\ UNCHANGED <<base_date, p_i, current_date, date_str, price, lookups, p_result>>
    /\ UNCHANGED <<growthVars, intrinsicVars, tenCapVars, reportVars, mainVars, rangeVars>>

\* line 118: the base date is parsed; line 119: the loop begins
PriceParse ==
    /\ p_pc = "call"
    /\ IF StrptimeRaises(base_date_str)
       THEN p_pc' = "raised" /\ UNCHANGED base_date
       ELSE p_pc' = "loop" /\ base_date' = strptime(base_date_str)
    /\ p_i' = 0
    /\ UNCHANGED <<base_date_str, closes, current_date, date_str, price, lookups,
                   p_result>>
    /\ UNCHANGED <<growthVars, intrinsicVars, tenCapVars, reportVars, mainVars, rangeVars>>

\* lines 119-125: one iteration of the loop, with its lookup
PriceLookup ==
    /\ p_pc = "loop"
    /\ p_i < SearchDays
    /\ current_date' = MinusDays(base_date, p_i)
    /\ date_str' = strftime(current_date')
    /\ lookups' = Append(lookups, date_str')
    /\ price' = get_price_on_date(Provider(date_str'))
    /\ IF PriceFound(price')
       THEN /\ p_result' = <<price', date_str'>>
            /\ p_pc' = "returned"
            /\ UNCHANGED p_i
       ELSE /\ p_i' = p_i + 1
            /\ UNCHANGED <<p_pc, p_result>>
    /\ UNCHANGED <<base_date_str, closes, base_date>>
    /\ UNCHANGED <<growthVars, intrinsicVars, tenCapVars, reportVars, mainVars, rangeVars>>

\* lines 127-128: the range is exhausted
PriceNotFound ==
    /\ p_pc = "loop"
    /\ p_i >= SearchDays
    /\ p_result' = <<None, None>>
    /\ p_pc' = "returned"
    /\ UNCHANGED <<base_date_str, closes, base_date, p_i, current_date, date_str,
                   price, lookups>>
    /\ UNCHANGED <<growthVars, intrinsicVars, tenCapVars, reportVars, mainVars, rangeVars>>

PriceNext == PriceCall \/ PriceParse \/ PriceLookup \/ PriceNotFound

PriceSpec == PriceInit /\ [][PriceNext]_vars

\* every lookup issued returns
PriceFairSpec == PriceSpec /\ WF_vars(PriceNext)

\* the days before the base date, within the window, that have a close on
\* record
Recorded == { k \in 0..(SearchDays - 1) : closes[k].t = "close" }

\* the days before the base date, within the window, that have a close
\* other than 0 on record
RecordedNonZero == { k \in Recorded : closes[k].v # 0 }

\* the padded date string of the day k days before the base date
DayBefore(k) ==
    CHOOSE s \in { strftime(Date(y, m, d)) :
                     y \in (TheYear - 1)..(TheYear + 2), m \in 1..12, d \in 1..31 } :
        /\ ~StrptimeRaises(s)
        /\ Ordinal(strptime(s)) = Ordinal(strptime(base_date_str)) - k

\* C11 as claimed: get_valid_price returns the close and the date of the most
\* recent of the 14 dates base_date, ..., base_date - 13 that has a close on
\* record, and (None, None) exactly when none of them has one.
C11_MostRecentRecordedClose ==
    p_pc = "returned" =>
        IF Recorded = {} THEN p_result = <<None, None>>
        ELSE p_result = <<<<closes[Min(Recorded)].v>>, DayBefore(Min(Recorded))>>

\* C11 as amended: get_valid_price returns the close and the date of the most
\* recent of the 14 dates base_date, ..., base_date - 13 that has a close
\* other than 0 on record, and (None, None) exactly when none of them has
\* one; a close of 0 counts as no price.
C11_MostRecentNonZeroClose ==
    p_pc = "returned" =>
        IF RecordedNonZero = {} THEN p_result = <<None, None>>
        ELSE p_result =
                <<<<closes[Min(RecordedNonZero)].v>>, DayBefore(Min(RecordedNonZero))>>

\* a close on record only 10 days before a base date that follows the end
\* of February of a leap year is found
C11_Witness ==
    /\ p_pc = "returned"
    /\ base_date_str = DateStr(<<2, 0, 2, 0>>, <<3>>, <<5>>)
    /\ RecordedNonZero = {10}
    /\ p_result = <<<<15010>>, DateStr(<<2, 0, 2, 0>>, <<0, 2>>, <<2, 4>>)>>

\* whether the j-th lookup asked for the day j - 1 days before the base date
AsksForDay(j) ==
    /\ ~StrptimeRaises(lookups[j])
    /\ Ordinal(strptime(lookups[j])) = Ordinal(strptime(base_date_str)) - (j - 1)

\* whether the answer for the day k days before the base date is a price
\* the search stops at
IsPrice(k) == closes[k].t = "close" /\ closes[k].v # 0

C12_Sequencing ==
    /\ Len(lookups) <= 14
    /\ \A j \in 1..Len(lookups) : AsksForDay(j)
    /\ \A j \in 1..(Len(lookups) - 1) : ~IsPrice(j - 1)
    /\ p_pc = "returned" =>
          /\ \A j \in 1..Len(lookups) :
                (closes[j - 1] = TransportError /\ j < 14) => Len(lookups) > j
          /\ p_result = <<None, None>> => Len(lookups) = 14
          /\ p_result # <<None, None>> => IsPrice(Len(lookups) - 1)

ticker_map ==
    << <<"TMUS", 2021>>, <<"OKTA", 2022>>, <<"EFX", 2017>>, <<"CON.DE", 2022>>,
       <<"MPL.AX", 2022>>, <<"COF", 2019>>, <<"GRMN", 2020>> >>

\* a failure ending the whole loop
AfterFailure_Abort(rest) == <<>>

\* lines 45-50: what is left of the loop after a failure has been caught
AfterFailure(rest) == rest

MainInit ==
    /\ RangeIdle
    /\ GrowthIdle
    /\ IntrinsicIdle
    /\ TenCapIdle
    /\ ReportIdle
    /\ PriceIdle
    /\ m_pc = "next"
    /\ m_rest = ticker_map
    /\ m_ticker = ""
    /\ m_breach_year = 0
    /\ m_start_year = 0
    /\ attempts = <<>>
    /\ outcome = EmptyDict

\* lines 23-30: the next item of ticker_map
MainNextTicker ==
    /\ m_pc = "next"
    /\ m_rest # <<>>
    /\ m_ticker' = Head(m_rest)[1]
    /\ m_breach_year' = Head(m_rest)[2]
    /\ m_start_year' = Head(m_rest)[2] - 6
    /\ m_rest' = Tail(m_rest)
    /\ attempts' = Append(attempts, Head(m_rest)[1])
    /\ m_pc' = "fetch"
    /\ UNCHANGED outcome
    /\ UNCHANGED <<growthVars, intrinsicVars, tenCapVars, reportVars, priceVars, rangeVars>>

\* lines 32-40 and 49-50: get_year_data_by_range returns, or raises and the
\* outer handler skips the ticker
MainFetch ==
    /\ m_pc = "fetch"
    /\ \E raises \in BOOLEAN :
          IF raises
          THEN /\ outcome' = outcome @@ (m_ticker :> "skipped")
               /\ m_rest' = AfterFailure(m_rest)
               /\ m_pc' = "next"
          ELSE /\ m_pc' = "report"
               /\ UNCHANGED <<outcome, m_rest>>
    /\ UNCHANGED <<m_ticker, m_breach_year, m_start_year, attempts>>
    /\ UNCHANGED <<growthVars, intrinsicVars, tenCapVars, reportVars, priceVars, rangeVars>>

\* lines 42-50: append_mos_to_csv returns; or it raises and the inner handler
\* writes the plain table; or that write raises too and the outer handler
\* skips the ticker
MainReport ==
    /\ m_pc = "report"
    /\ \E end \in {"report written", "table written", "skipped"} :
          /\ outcome' = outcome @@ (m_ticker :> end)
          /\ m_rest' = IF end = "report written" THEN m_rest ELSE AfterFailure(m_rest)
    /\ m_pc' = "next"
    /\ UNCHANGED <<m_ticker, m_breach_year, m_start_year, attempts>>
    /\ UNCHANGED <<growthVars, intrinsicVars, tenCapVars, reportVars, priceVars, rangeVars>>

\* line 23: ticker_map is exhausted
MainEnd ==
    /\ m_pc = "next"
    /\ m_rest = <<>>
    /\ m_pc' = "done"
    /\ UNCHANGED <<m_rest, m_ticker, m_breach_year, m_start_year, attempts, outcome>>
    /\ UNCHANGED <<growthVars, intrinsicVars, tenCapVars, reportVars, priceVars, rangeVars>>

MainNext == MainNextTicker \/ MainFetch \/ MainReport \/ MainEnd

MainSpec == MainInit /\ [][MainNext]_vars

\* every call made for a ticker returns or raises
MainFairSpec == MainSpec /\ WF_vars(MainNext)

\* the tickers of ticker_map, in its order
Tickers == [k \in 1..Len(ticker_map) |-> ticker_map[k][1]]

\* C13: a failure while processing one ticker (of its fetch, or any error
\* raised while building its report) never aborts the run: every later
\* ticker of ticker_map is still processed, in map order, each ticker being
\* attempted exactly once whichever earlier tickers failed.
C13_FailuresDoNotStopTheRun ==
    /\ [](attempts = SubSeq(Tickers, 1, Len(attempts)))
    /\ [](m_pc = "done" => attempts = Tickers)
    /\ <>(m_pc = "done")

\* the run over with the first ticker skipped for a failed fetch, a later
\* one left with its plain table, and the last one attempted all the same
C13_Witness ==
    /\ m_pc = "done"
    /\ outcome["TMUS"] = "skipped"
    /\ outcome["EFX"] = "table written"
    /\ outcome["COF"] = "skipped"
    /\ outcome["GRMN"] = "report written"
    /\ attempts[7] = "GRMN"

(***************************************************************************)
(* fmp_api.py: one call of get_year_data_by_range                          *)
(***************************************************************************)
\* the largest value of the argument years drawn
MaxYears == 2

\* a field holding the string that is the numeral of n
Str(n) == [t |-> "str", v |-> n]

\* the decimal digits of n
RECURSIVE Digits(_)
Digits(n) == IF n < 10 THEN <<n>> ELSE Digits(n \div 10) \o <<n % 10>>

\* str(value): the numeral of a number, a string itself, and for None a
\* string that is no numeral
PyStr(raw) == IF raw.t \in {"num", "str"} THEN Digits(raw.v) ELSE <<-1>>

\* entry.get(k, default)
DictGet(entry, k, default) == IF k \in DOMAIN entry THEN entry[k] ELSE default

\* lines 42-46: get_by_year
get_by_year(data, yr) ==
    LET hits == { j \in 1..Len(data) :
                    PyStr(DictGet(data[j], "calendarYear", Null)) = PyStr(Num(yr)) }
    IN  IF hits = {} THEN EmptyDict ELSE data[Min(hits)]

\* a list leaving out the years the provider has no record of
Collect_SkipMissing(list, entry, k) ==
    IF entry = EmptyDict THEN list ELSE Append(list, DictGet(entry, k, Num(0)).v)

\* lines 71-74: list.append(entry.get(k, 0))
Collect(list, entry, k) == Append(list, DictGet(entry, k, Num(0)).v)

\* the years the provider may have records of: those asked for with
\* years = MaxYears, one before and one after
ProviderYears == (BaseYear - 1)..(BaseYear + MaxYears + 1)

\* the per-share figures on record for a year, none of them 0
EpsOf(yr) == yr - 2000
BookOf(yr) == 100 + yr - 2000
RevenueOf(yr) == 200 + yr - 2000
CashflowOf(yr) == 300 + yr - 2000

\* the calendarYear field as the provider writes it
YearField(yr, type) == IF type = "str" THEN Str(yr) ELSE Num(yr)

\* an income statement: with its figures, with no key but calendarYear, or
\* with a null eps
IncomeEntry(yr, type, shape) ==
    IF shape = "nokeys" THEN ("calendarYear" :> YearField(yr, type))
    ELSE ("calendarYear" :> YearField(yr, type))
         @@ ("eps" :> IF shape = "null" THEN Null ELSE Num(EpsOf(yr)))
         @@ ("revenue" :> Num(EpsOf(yr) * MILLION))

CashflowEntry(yr, type) ==
    ("calendarYear" :> YearField(yr, type)) @@ ("freeCashFlow" :> Num(EpsOf(yr) * MILLION))

MetricsEntry(yr, type, shape) ==
    IF shape = "nokeys" THEN ("calendarYear" :> YearField(yr, type))
    ELSE ("calendarYear" :> YearField(yr, type))
         @@ ("bookValuePerShare" :> Num(BookOf(yr)))
         @@ ("revenuePerShare" :> Num(RevenueOf(yr)))
         @@ ("operatingCashFlowPerShare" :> Num(CashflowOf(yr)))
         @@ ("roic" :> Num(1))

\* the years of ys as a list, latest first or earliest first
RECURSIVE YearList(_, _)
YearList(ys, latestFirst) ==
    IF ys = {} THEN <<>>
    ELSE LET first == CHOOSE a \in ys :
                        \A b \in ys : IF latestFirst THEN b <= a ELSE a <= b
         IN  <<first>> \o YearList(ys \ {first}, latestFirst)

\* the records a fetch returns for the years ys: the latest year first when
\* calendarYear is a string, the earliest first when it is a number
IncomeRecords(ys, type, shape) ==
    LET l == YearList(ys, type = "str")
    IN  [j \in 1..Len(l) |-> IncomeEntry(l[j], type, shape)]

CashflowRecords(ys, type) ==
    LET l == YearList(ys, type = "str")
    IN  [j \in 1..Len(l) |-> CashflowEntry(l[j], type)]

MetricsRecords(ys, type, shape) ==
    LET l == YearList(ys, type = "str")
    IN  [j \in 1..Len(l) |-> MetricsEntry(l[j], type, shape)]

\* before the call
RangeInit ==
    /\ MainIdle
    /\ GrowthIdle
    /\ IntrinsicIdle
    /\ TenCapIdle
    /\ ReportIdle
    /\ PriceIdle
    /\ RangeIdle

\* lines 33-40 and 48-49: the call, the three fetches and the empty lists; a
\* fetch that fails raises.  The provider writes calendarYear as a string and
\* lists the latest year first, or as a number and the earliest year first.
RangeFetch ==
    /\ y_pc = "idle"
    /\ y_start_year' = BaseYear
    /\ y_years' \in {1, MaxYears}
    /\ \E raises \in BOOLEAN, type \in {"str", "num"},
          iys \in SUBSET ProviderYears, mys \in SUBSET ProviderYears,
          cys \in {{}, ProviderYears},
          ishape \in {"full", "nokeys", "null"}, mshape \in {"full", "nokeys"} :
          IF raises
          THEN /\ y_pc' = "raised"
               /\ UNCHANGED <<y_income, y_cashflow, y_metrics, y_year>>
          ELSE /\ y_pc' = "loop"
               /\ y_income' = IncomeRecords(iys, type, ishape)
               /\ y_cashflow' = CashflowRecords(cys, type)
               /\ y_metrics' = MetricsRecords(mys, type, mshape)
               /\ y_year' = y_start_year'
    /\ UNCHANGED <<results, book_list, y_eps_list, revenue_list, cashflow_list,
                   mos_metrics>>
    /\ UNCHANGED <<growthVars, intrinsicVars, tenCapVars, reportVars, priceVars,
                   mainVars>>

\* lines 51-74: one iteration of the loop over
\* range(start_year, start_year + years + 1)
RangeYear ==
    /\ y_pc = "loop"
    /\ y_year < y_start_year + y_years + 1
    /\ LET i == get_by_year(y_income, y_year)
           c == get_by_year(y_cashflow, y_year)
           m == get_by_year(y_metrics, y_year)
           revenue == DictGet(i, "revenue", Num(0))
           fcf == DictGet(c, "freeCashFlow", Num(0))
           eps1 == DictGet(i, "eps", Num(0))
           roic == DictGet(m, "roic", Null)
       IN  IF RaisesTypeError(revenue) \/ RaisesTypeError(fcf) \/ RaisesTypeError(eps1)
           THEN /\ y_pc' = "raised"
                /\ UNCHANGED <<y_year, results, book_list, y_eps_list, revenue_list,
                               cashflow_list>>
           ELSE /\ results' = Append(results,
                                 [Year |-> y_year,
                                  Revenue |-> RoundDiv(100 * revenue.v, MILLION),
                                  FreeCashFlow |-> RoundDiv(100 * fcf.v, MILLION),
                                  EPS |-> 100 * eps1.v,
                                  ROIC |-> IF roic # Null THEN <<10000 * roic.v>>
                                           ELSE None])
                /\ book_list' = Collect(book_list, m, "bookValuePerShare")
                /\ y_eps_list' = Collect(y_eps_list, i, "eps")
                /\ revenue_list' = Collect(revenue_list, m, "revenuePerShare")
                /\ cashflow_list' = Collect(cashflow_list, m, "operatingCashFlowPerShare")
                /\ y_year' = y_year + 1
                /\ UNCHANGED y_pc
    /\ UNCHANGED <<y_start_year, y_years, y_income, y_cashflow, y_metrics, mos_metrics>>
    /\ UNCHANGED <<growthVars, intrinsicVars, tenCapVars, reportVars, priceVars,
                   mainVars>>

\* lines 76-83: the dict of the four lists, returned with results
RangeReturn ==
    /\ y_pc = "loop"
    /\ y_year >= y_start_year + y_years + 1
    /\ mos_metrics' = ("book" :> book_list) @@ ("eps" :> y_eps_list)
                      @@ ("revenue" :> revenue_list) @@ ("cashflow" :> cashflow_list)
    /\ y_pc' = "returned"
    /\ UNCHANGED <<y_start_year, y_years, y_income, y_cashflow, y_metrics, y_year,
                   results, book_list, y_eps_list, revenue_list, cashflow_list>>
    /\ UNCHANGED <<growthVars, intrinsicVars, tenCapVars, reportVars, priceVars,
                   mainVars>>

RangeNext == RangeFetch \/ RangeYear \/ RangeReturn

RangeSpec == RangeInit /\ [][RangeNext]_vars

\* the figure k on record in data for the year yr, 0 when there is no record
\* of the year or the record has no such key
OnRecord(data, yr, k) ==
    LET recs == { j \in 1..Len(data) : data[j]["calendarYear"].v = yr }
    IN  IF recs = {} THEN 0
        ELSE LET e == data[CHOOSE j \in recs : TRUE]
             IN  IF k \in DOMAIN e THEN e[k].v ELSE 0

\* whether index i (from 0) of the four lists holds the figures of the year
\* start_year + i
IndexIsYear(i) ==
    /\ y_eps_list[i + 1] = OnRecord(y_income, y_start_year + i, "eps")
    /\ book_list[i + 1] = OnRecord(y_metrics, y_start_year + i, "bookValuePerShare")
    /\ revenue_list[i + 1] = OnRecord(y_metrics, y_start_year + i, "revenuePerShare")
    /\ cashflow_list[i + 1] =
          OnRecord(y_metrics, y_start_year + i, "operatingCashFlowPerShare")

\* C14: in the series get_year_data_by_range produces, index i of every
\* series is the year start_year + i: the four series have equal length,
\* are in ascending year order, and a year the provider has no record of
\* does not shift later years to a lower index.
C14_IndexIsYearOffset ==
    /\ y_pc \in {"loop", "returned"} =>
          /\ Len(y_eps_list) = y_year - y_start_year
          /\ Len(book_list) = Len(y_eps_list)
          /\ Len(revenue_list) = Len(y_eps_list)
          /\ Len(cashflow_list) = Len(y_eps_list)
          /\ \A i \in 0..(Len(y_eps_list) - 1) :
                IndexIsYear(i) /\ results[i + 1].Year = y_start_year + i
    /\ y_pc = "returned" =>
          /\ mos_metrics["eps"] = y_eps_list
          /\ mos_metrics["book"] = book_list
          /\ mos_metrics["revenue"] = revenue_list
          /\ mos_metrics["cashflow"] = cashflow_list
          /\ Len(y_eps_list) = y_years + 1

\* the provider has no income statement and no key metrics for the second
\* of three years: its place is held by 0
C14_Witness ==
    /\ y_pc = "returned"
    /\ y_years = 2
    /\ { y_income[j]["calendarYear"].v : j \in 1..Len(y_income) }
          = {y_start_year, y_start_year + 2}
    /\ { y_metrics[j]["calendarYear"].v : j \in 1..Len(y_metrics) }
          = {y_start_year, y_start_year + 2}
    /\ mos_metrics["eps"] = <<EpsOf(y_start_year), 0, EpsOf(y_start_year + 2)>>
    /\ mos_metrics["book"] = <<BookOf(y_start_year), 0, BookOf(y_start_year + 2)>>

(***************************************************************************)
(* The rows and the summary of append_mos_to_csv                           *)
(***************************************************************************)
\* the row appended last
LastRow == fair_value_history[Len(fair_value_history)]

\* the four intrinsic-value figures for an EPS and a growth rate, at the
\* discount rate and margin of safety the report uses
FiguresFor(e, g) ==
    LET v == calculate_intrinsic_value(RInt(e), g, <<3, 20>>, <<1, 2>>)
    IN  [k \in FourFigures |-> v[k]]

\* C15: in every row of the fair-value history the 'Growth Rate (%)' is the
\* growth rate the row's intrinsic-value figures were computed with for the
\* row's year (0 when the estimate for the year failed, never a rate carried
\* over from another year), and building a row never fails for want of an
\* estimate.
C15_RowReportsGrowthUsed ==
    /\ (r_pc = "loop" /\ fair_value_history # <<>> /\ LastRow.Year = r_year) =>
          /\ Rat(LastRow.GrowthRate, 10000) = r_growth_rate
          /\ LastRow.GrowthRate =
                (IF EstimateRaises(r_year, start_year) THEN 0
                 ELSE mos_growth_estimate(metrics_raw, r_year, start_year)["avg"])
          /\ [k \in FourFigures |-> intrinsic[k]] = FiguresFor(r_eps, r_growth_rate)
    /\ r_pc = "row" => growth_details # Unbound
    /\ (r_pc = "raised" /\ intrinsic # Unbound) => r_exception # "UnboundLocalError"

\* the first year of the loop has too little history: its estimate fails, 0
\* is used, and building its row raises UnboundLocalError
C15_Witness ==
    /\ r_pc = "raised"
    /\ r_exception = "UnboundLocalError"
    /\ EstimateRaises(r_year, start_year)
    /\ r_growth_rate = RZero
    /\ intrinsic = ZeroResult
    /\ growth_details = Unbound
    /\ fair_value_history = <<>>

\* the rows of the breach year
BreachRows ==
    { j \in 1..Len(fair_value_history) : fair_value_history[j].Year = breach_year }

\* C16: the summary block is about the breach year: its intrinsic-value
\* figures and its ten-cap figures are the ones computed for
\* year = breach_year from the EPS at the breach year, with the growth rate
\* estimated for target_year = breach_year; and the summary is produced for
\* every input for which the estimate of the breach year succeeds, also when
\* no history row was generated.
C16_SummaryIsAboutBreachYear ==
    /\ r_pc \in {"save", "returned"} =>
          /\ [k \in FourFigures |->
                mos_summary[CASE k = "EPS_10y" -> "EPS10y"
                              [] k = "Future Value" -> "FutureValue"
                              [] k = "Fair Value Today" -> "FairValueMOS"
                              [] k = "MOS Price (50%)" -> "MOSPrice"]]
                = FiguresFor(r_eps_now, AvgAsRate(r_details))
          /\ \A j \in BreachRows :
                /\ mos_summary.TenCapBuyPrice = fair_value_history[j].TenCapBuyPrice
                /\ mos_summary.FairValueTenCap = fair_value_history[j].FairValueTenCap
    /\ r_pc = "raised" => EstimateRaises(breach_year, start_year)

\* a report written whose summary holds the figures of the last year of the
\* history, three years after the breach, not those of the breach year
C16_Witness ==
    /\ r_pc = "returned"
    /\ breach_year = start_year + 6
    /\ LastRow.Year = breach_year + 3
    /\ mos_summary.MOSPrice = LastRow.MOSPrice
    /\ mos_summary.MOSPrice # FiguresFor(r_eps_now, AvgAsRate(r_details))["MOS Price (50%)"]
    /\ mos_summary.TenCapBuyPrice = LastRow.TenCapBuyPrice
    /\ \E j \in BreachRows :
          mos_summary.TenCapBuyPrice # fair_value_history[j].TenCapBuyPrice

====
